---- MODULE Spec2Model ----
(***************************************************************************)
(* Model of the realtime summary scrubber, fs/xfs/scrub/rtsummary.c.       *)
(*                                                                         *)
(* xchk_rtsummary() validates the summary geometry, recomputes the         *)
(* summary from the free extents of the realtime bitmap into an xfile and  *)
(* compares the xfile block by block with the ondisk summary file.  One    *)
(* run of xchk_rtsummary is modelled as a state machine whose steps are    *)
(* the calls it makes into its collaborators (fork scrubber, free extent   *)
(* iterator, xfile, extent map, buffer cache).                             *)
(***************************************************************************)
EXTENDS Integers, Sequences, FiniteSets

(***************************************************************************)
(* Bounds of the model.                                                    *)
(***************************************************************************)
\* largest realtime volume, in rt extents
MaxRExtents == 4
\* bitmap bits past the last rt extent that the iterator may still report
BitmapSlack == 1
\* blocks by which the summary file may exceed the computed size
MaxGrowBlocks == 1
\* increments applied to one summary word
MaxIncs == 2

(***************************************************************************)
(* Filesystem configuration (struct xfs_mount), scaled down.               *)
(***************************************************************************)
\* log2 of the bytes in a summary word
XFS_WORDLOG == 2
\* summary words per filesystem block
m_blockwsize == 4
\* rt extents tracked by one bitmap block
m_rtx_per_rbmblock == 3
\* filesystem blocks per rt extent
sb_rextsize == 2

WordBytes == 2 ^ XFS_WORDLOG
m_blocksize == m_blockwsize * WordBytes
m_blockmask == m_blocksize - 1

\* error codes; NoError is the return value 0
NoError == "0"
EINTR == "EINTR"
EIO == "EIO"
ENOMEM == "ENOMEM"
EFSCORRUPTED == "EFSCORRUPTED"

\* scrub outcome flags of sc->sm->sm_flags
XFS_SCRUB_OFLAG_CORRUPT == "CORRUPT"
XFS_SCRUB_OFLAG_XCORRUPT == "XCORRUPT"

(***************************************************************************)
(* Arithmetic helpers.                                                     *)
(***************************************************************************)
\* howmany(x, y): blocks of y needed to hold x
howmany(x, y) == (x + y - 1) \div y

RECURSIVE xfs_highbit64(_)
\* index of the highest set bit of v, -1 when v = 0
xfs_highbit64(v) == IF v = 0 THEN -1 ELSE 1 + xfs_highbit64(v \div 2)

RECURSIVE BitAnd(_, _)
\* bitwise and of two naturals
BitAnd(a, b) ==
    IF a = 0 \/ b = 0 THEN 0
    ELSE (IF a % 2 = 1 /\ b % 2 = 1 THEN 1 ELSE 0) + 2 * BitAnd(a \div 2, b \div 2)

XFS_FSB_TO_B(fsb) == fsb * m_blocksize
XFS_B_TO_FSB(b) == (b + m_blockmask) \div m_blocksize

(***************************************************************************)
(* Summary words: union xfs_suminfo_raw is four bytes of memory, read      *)
(* either as a big-endian (rtg) or as a native-endian (old) 32-bit count.  *)
(***************************************************************************)
ZeroWord == <<0, 0, 0, 0>>

\* the machine running the check is little-endian
CpuLittleEndian == TRUE

be32_to_cpu(raw) == raw[1] * 16777216 + raw[2] * 65536 + raw[3] * 256 + raw[4]
cpu_to_be32(n) ==
    <<(n \div 16777216) % 256, (n \div 65536) % 256, (n \div 256) % 256, n % 256>>
le32_to_cpu(raw) == raw[4] * 16777216 + raw[3] * 65536 + raw[2] * 256 + raw[1]
cpu_to_le32(n) ==
    <<n % 256, (n \div 256) % 256, (n \div 65536) % 256, (n \div 16777216) % 256>>
native_to_cpu(raw) == IF CpuLittleEndian THEN le32_to_cpu(raw) ELSE be32_to_cpu(raw)
cpu_to_native(n) == IF CpuLittleEndian THEN cpu_to_le32(n) ELSE cpu_to_be32(n)

\* the count a raw word holds under the encoding of the filesystem
SumValue(rtgroups, raw) == IF rtgroups THEN be32_to_cpu(raw) ELSE native_to_cpu(raw)
\* the raw word holding count n under the encoding of the filesystem
SumRaw(rtgroups, n) == IF rtgroups THEN cpu_to_be32(n) ELSE cpu_to_native(n)

\* raw with 1 added to the 32-bit number whose bytes, least significant
\* first, sit at the positions order[1], order[2], ... (carry ripples upward
\* and is dropped past the last byte: arithmetic modulo 2^32)
RECURSIVE AddOne(_, _, _)
AddOne(raw, order, i) ==
    IF i > Len(order) THEN raw
    ELSE IF raw[order[i]] = 255
         THEN AddOne([raw EXCEPT ![order[i]] = 0], order, i + 1)
         ELSE [raw EXCEPT ![order[i]] = @ + 1]

\* be32_add_cpu(&v->rtg, 1)
be32_add_cpu(raw) == AddOne(raw, <<4, 3, 2, 1>>, 1)
\* v->old += 1 on a native-endian u32
native_add(raw) ==
    IF CpuLittleEndian THEN AddOne(raw, <<1, 2, 3, 4>>, 1)
    ELSE AddOne(raw, <<4, 3, 2, 1>>, 1)

(***************************************************************************)
(* Geometry computed by xchk_setup_rtsummary from sb_rblocks.              *)
(***************************************************************************)
xfs_blen_to_rtbxlen(blen) == blen \div sb_rextsize
xfs_rtbitmap_blockcount(rextents) == howmany(rextents, m_rtx_per_rbmblock)
xfs_compute_rextslog(rextents) == IF rextents = 0 THEN 0 ELSE xfs_highbit64(rextents)
xfs_rtsummary_levels(rextents) == xfs_compute_rextslog(rextents) + 1
xfs_rtsummary_blockcount(rextents) ==
    howmany(xfs_rtbitmap_blockcount(rextents) * xfs_rtsummary_levels(rextents),
            m_blockwsize)

\* rts after xchk_setup_rtsummary: zeroed by kvzalloc, geometry filled in
\* only when the filesystem has a realtime volume
SetupGeometry(rblocks) ==
    IF rblocks # 0
    THEN [rextents   |-> xfs_blen_to_rtbxlen(rblocks),
          rbmblocks  |-> xfs_rtbitmap_blockcount(xfs_blen_to_rtbxlen(rblocks)),
          rsumblocks |-> xfs_rtsummary_blockcount(xfs_blen_to_rtbxlen(rblocks)),
          rsumlevels |-> xfs_rtsummary_levels(xfs_blen_to_rtbxlen(rblocks))]
    ELSE [rextents |-> 0, rbmblocks |-> 0, rsumblocks |-> 0, rsumlevels |-> 0]

(***************************************************************************)
(* Coordinates of a free extent record in the summary.                     *)
(***************************************************************************)
xfs_rtx_to_rbmblock(rtx) == rtx \div m_rtx_per_rbmblock
xfs_rtsumoffs(rbmblocks, log2_len, rbmoff) == log2_len * rbmblocks + rbmoff
xfs_rtx_to_rtb(rtx) == rtx * sb_rextsize
xfs_rtxlen_to_extlen(rtxlen) == rtxlen * sb_rextsize

xfs_verify_rtbno(rblocks, rtbno) == rtbno < rblocks
\* the extent [rtbno, rtbno + len) lies inside the realtime volume
xfs_verify_rtbext(rblocks, rtbno, len) ==
    /\ rtbno + len > rtbno
    /\ xfs_verify_rtbno(rblocks, rtbno)
    /\ xfs_verify_rtbno(rblocks, rtbno + len - 1)

(***************************************************************************)
(* The free extent iterator: the records xfs_rtalloc_query_all hands to    *)
(* its callback are the maximal runs of free bits, in ascending order.     *)
(***************************************************************************)
RECURSIVE RunEnd(_, _, _)
\* first unit at or after u that is not free (or n)
RunEnd(free, u, n) == IF u < n /\ u \in free THEN RunEnd(free, u + 1, n) ELSE u

RECURSIVE FreeRecords(_, _, _)
FreeRecords(free, u, n) ==
    IF u >= n THEN <<>>
    ELSE IF u \notin free THEN FreeRecords(free, u + 1, n)
    ELSE <<[ar_startext |-> u, ar_extcount |-> RunEnd(free, u, n) - u]>>
         \o FreeRecords(free, RunEnd(free, u, n), n)

\* a summary offset with block and size order swapped
RecordOffs_Swapped(rbmblocks, rec) ==
    xfs_rtsumoffs(rbmblocks, xfs_rtx_to_rbmblock(rec.ar_startext),
                  xfs_highbit64(rec.ar_extcount))

\* summary offset of a record
RecordOffs(rbmblocks, rec) ==
    xfs_rtsumoffs(rbmblocks, xfs_highbit64(rec.ar_extcount),
                  xfs_rtx_to_rbmblock(rec.ar_startext))

(***************************************************************************)
(* State.                                                                  *)
(*   mp       superblock and mount geometry: sb_rblocks, sb_rextents,      *)
(*            m_rsumlevels, m_rsumblocks, rtgroups (xfs_has_rtgroups)      *)
(*   rbmip    bitmap inode: i_disk_size, free (the free rt extents)        *)
(*   rsumip   summary inode: i_disk_size, blocks (the ondisk summary, a    *)
(*            block of raw words per file block), extents (state of the    *)
(*            data fork mapping of each file block; the entry at endoff    *)
(*            stands for everything at or past end of file)                *)
(*   rts      struct xchk_rtsummary: computed geometry and words[]         *)
(*   xfile    sc->xfile, the recomputed summary, word offset -> raw word   *)
(*   sm_flags sc->sm->sm_flags                                             *)
(*   marks    which inode or file block was reported corrupt               *)
(*   pc       position inside xchk_rtsummary; ret its return value         *)
(*   cur      position of the free extent iterator                         *)
(*   off, sumoff   loop counters of xchk_rtsum_compare                     *)
(*   bp       summary block held in rts->args (-1: none)                   *)
(*   hist     counters of the calls made so far                            *)
(*   stages   stages entered so far, in order                              *)
(***************************************************************************)
VARIABLES mp, rbmip, rsumip, rts, xfile, sm_flags, marks, pc, ret, cur,
          off, sumoff, bp, hist, stages

vars == <<mp, rbmip, rsumip, rts, xfile, sm_flags, marks, pc, ret, cur,
          off, sumoff, bp, hist, stages>>

ondisk == <<mp, rbmip, rsumip>>

\* units the iterator walks: the rt extents and the bits behind them, as far
\* as the blocks of the bitmap file reach
IterUnits(rextents) ==
    IF rextents + BitmapSlack <= xfs_rtbitmap_blockcount(rextents) * m_rtx_per_rbmblock
    THEN rextents + BitmapSlack
    ELSE xfs_rtbitmap_blockcount(rextents) * m_rtx_per_rbmblock
Records == FreeRecords(rbmip.free, 0, IterUnits(rts.rextents))

\* number of records of recs whose summary offset is w
RECURSIVE CountAt(_, _, _)
CountAt(recs, rbmblocks, w) ==
    IF recs = <<>> THEN 0
    ELSE (IF RecordOffs(rbmblocks, Head(recs)) = w THEN 1 ELSE 0)
         + CountAt(Tail(recs), rbmblocks, w)

\* the summary block b that the allocator keeps for the free extents recs
AllocatorBlock(recs, rtgroups, rbmblocks, b) ==
    [i \in 1 .. m_blockwsize |->
        SumRaw(rtgroups, CountAt(recs, rbmblocks, b * m_blockwsize + i - 1))]

\* block blk with its last word damaged
Damage(blk) ==
    [blk EXCEPT ![m_blockwsize] = [@ EXCEPT ![1] = (@ + 1) % 256]]

\* file block mappings explored: all written, or one block that is a hole
\* or unwritten, or all written with an extent at or past end of file
ExtentMaps(n) ==
    {[b \in 0 .. n |-> IF b = n THEN "hole" ELSE "written"]}
    \cup {[b \in 0 .. n |-> IF b = n THEN "hole" ELSE IF b = bad THEN st ELSE "written"] :
            bad \in 0 .. (n - 1), st \in {"hole", "unwritten"}}
    \cup {[b \in 0 .. n |-> "written"]}

\* summary file sizes explored for a computed size of nblocks: the exact
\* size, grown by whole blocks, one block short, and not block aligned
SummarySizes(nblocks) ==
    {XFS_FSB_TO_B(nblocks + k) : k \in 0 .. MaxGrowBlocks}
    \cup {XFS_FSB_TO_B(k) : k \in {nblocks - 1} \cap (0 .. nblocks)}
    \cup {XFS_FSB_TO_B(nblocks) + WordBytes}
    \cup {XFS_FSB_TO_B(nblocks + 1) + WordBytes}

\* xfile_create(descr, isize, &sc->xfile): a new xfile of isize bytes, which
\* reads as zeroes
xfile_create(isize) == [w \in 0 .. (isize \div WordBytes - 1) |-> ZeroWord]

\* checks: the geometry checks evaluated, in order; visits: calls of the
\* free extent callback; stores: xfile words stored; lookups, bmaps: extent
\* map queries; reads: ondisk summary block reads; cmps: block comparisons;
\* relse: buffer releases; fault: the error a collaborator reported or the
\* cancellation seen ("none": neither happened); first: the xfile that an
\* earlier check of the same filesystem left when its scan completed
\* (taken: there was such a check); sigblock: a fatal signal was pending
\* when an iteration of the block comparison loop started; start: the
\* word that word 0 of the xfile held before the calls counted in visits;
\* got: ondisk summary block reads that returned a buffer
ZeroHist == [checks |-> <<>>, visits |-> 0, stores |-> 0, lookups |-> 0,
             bmaps |-> 0, reads |-> 0, cmps |-> 0, relse |-> 0, fault |-> "none",
             got |-> 0,
             first |-> [taken |-> FALSE, xfile |-> <<>>], sigblock |-> FALSE,
             start |-> ZeroWord]

\* the geometry of the inputs is the one the scan and the comparison need
GeometryGood(g, rextents, levels, sumblocks, sumsize, bmsize) ==
    /\ rextents = g.rextents
    /\ levels = g.rsumlevels
    /\ sumblocks = g.rsumblocks
    /\ sumsize % m_blocksize = 0
    /\ sumsize >= XFS_FSB_TO_B(g.rsumblocks)
    /\ bmsize = XFS_FSB_TO_B(g.rbmblocks)

Init ==
    \E rblocks \in {sb_rextsize * n : n \in 0 .. MaxRExtents} :
      LET g == SetupGeometry(rblocks) IN
      \E rextents \in {g.rextents, g.rextents + 1},
         levels \in {g.rsumlevels, g.rsumlevels + 1},
         sumblocks \in {g.rsumblocks, g.rsumblocks + 1},
         sumsize \in SummarySizes(g.rsumblocks),
         bmsize \in {XFS_FSB_TO_B(g.rbmblocks), XFS_FSB_TO_B(g.rbmblocks + 1)},
         rtgroups \in BOOLEAN,
         free \in SUBSET (0 .. (IterUnits(g.rextents) - 1)) :
        LET n == XFS_B_TO_FSB(sumsize)
            recs == FreeRecords(free, 0, IterUnits(g.rextents))
            good == GeometryGood(g, rextents, levels, sumblocks, sumsize, bmsize)
        IN
        \E damaged \in SUBSET (0 .. (n - 1)), map \in ExtentMaps(n) :
          \* inputs that the geometry checks reject are explored with one
          \* bitmap (the whole volume free); they, and bitmaps with free bits
          \* past the end of the volume, are explored with an undamaged
          \* summary and a fully written file
          /\ ~good => free = 0 .. (g.rextents - 1)
          /\ (~good \/ free \cap (g.rextents .. (IterUnits(g.rextents) - 1)) # {})
                => /\ damaged = {}
                   /\ map = [b \in 0 .. n |-> IF b = n THEN "hole" ELSE "written"]
          /\ mp = [sb_rblocks |-> rblocks, sb_rextents |-> rextents,
                   m_rsumlevels |-> levels, m_rsumblocks |-> sumblocks,
                   rtgroups |-> rtgroups]
          /\ rbmip = [i_disk_size |-> bmsize, free |-> free]
          /\ rsumip = [i_disk_size |-> sumsize,
                       blocks |-> [b \in 0 .. (n - 1) |->
                           IF b \in damaged
                           THEN Damage(AllocatorBlock(recs, rtgroups, g.rbmblocks, b))
                           ELSE AllocatorBlock(recs, rtgroups, g.rbmblocks, b)],
                       extents |-> map]
          /\ rts = [rextents |-> g.rextents, rbmblocks |-> g.rbmblocks,
                    rsumblocks |-> g.rsumblocks, rsumlevels |-> g.rsumlevels,
                    words |-> [i \in 1 .. m_blockwsize |-> ZeroWord]]
          /\ xfile = xfile_create(XFS_FSB_TO_B(sumblocks))
          /\ sm_flags = {}
          /\ marks = {}
          /\ pc = "geometry"
          /\ ret = "none"
          /\ cur = 1
          /\ off = 0
          /\ sumoff = 0
          /\ bp = -1
          /\ hist = ZeroHist
          /\ stages = <<>>

(***************************************************************************)
(* Corruption reporting (scrub/common.c).                                  *)
(***************************************************************************)
InoMark(ino) == [kind |-> "ino", ino |-> ino, off |-> -1]
InoXrefMark(ino) == [kind |-> "ino_xref", ino |-> ino, off |-> -1]
\* sc->ip is the summary inode (xchk_install_live_inode in setup)
FblockMark(o) == [kind |-> "fblock", ino |-> "rsumip", off |-> o]

\* xchk_fblock_process_error: a clean result lets the caller go on; a
\* corruption error is noted in sm_flags and cleared; any other error is
\* handed back to the caller
xchk_fblock_process_error(error) ==
    IF error = NoError THEN [ok |-> TRUE, error |-> NoError, corrupt |-> FALSE]
    ELSE IF error = EFSCORRUPTED
         THEN [ok |-> FALSE, error |-> NoError, corrupt |-> TRUE]
         ELSE [ok |-> FALSE, error |-> error, corrupt |-> FALSE]

(***************************************************************************)
(* The xfile (scrub/xfile.c): loads inside the file return what was        *)
(* stored; a load that reaches past the size of the file fails or returns  *)
(* zeroes, depending on whether the range still lies in the last page; a   *)
(* store past the size grows the file.  fail: the memory allocation or     *)
(* page lookup underneath failed.                                          *)
(***************************************************************************)
xfile_load(xf, pos, nr_words, fail) ==
    IF fail THEN [error |-> ENOMEM, words |-> <<>>]
    ELSE [error |-> NoError,
          words |-> [i \in 1 .. nr_words |->
                        IF (pos + i - 1) \in DOMAIN xf THEN xf[pos + i - 1] ELSE ZeroWord]]

xfile_store(xf, pos, raw) ==
    [w \in (DOMAIN xf) \cup (0 .. pos) |->
        IF w = pos THEN raw ELSE IF w \in DOMAIN xf THEN xf[w] ELSE ZeroWord]

xfsum_load(xf, sumoff_, fail) == xfile_load(xf, sumoff_, 1, fail)
xfsum_store(xf, sumoff_, rawinfo) == xfile_store(xf, sumoff_, rawinfo)
xfsum_copyout(xf, sumoff_, nr_words, fail) == xfile_load(xf, sumoff_, nr_words, fail)

(***************************************************************************)
(* xchk_rtsum_inc: bump a summary word in the encoding of the filesystem.  *)
(***************************************************************************)
\* an increment that stores a count of one whatever the word held
xchk_rtsum_inc_SetOne(rtgroups, v) == SumRaw(rtgroups, 1)
\* an increment that treats every word as a native-endian integer
xchk_rtsum_inc_NativeOnly(rtgroups, v) == native_add(v)

xchk_rtsum_inc(rtgroups, v) ==
    IF rtgroups THEN be32_add_cpu(v) ELSE native_add(v)

(***************************************************************************)
(* xchk_rtsum_record_free: the callback of the free extent iterator.       *)
(*   term    xchk_should_terminate saw a fatal signal                      *)
(*   ldfail  the xfile load fails; sterr: error of the xfile store         *)
(* Result: the error returned, the xfile afterwards, and whether the       *)
(* bitmap inode was marked as a cross-referencing corruption.              *)
(***************************************************************************)
\* a callback that does not verify the extent
xchk_rtsum_record_free_NoVerify(rec, term, ldfail, sterr) ==
    IF term THEN [error |-> EINTR, xfile |-> xfile, xcorrupt |-> FALSE, stored |-> 0]
    ELSE
    LET rbmoff == xfs_rtx_to_rbmblock(rec.ar_startext)
        lenlog == xfs_highbit64(rec.ar_extcount)
        offs == xfs_rtsumoffs(rts.rbmblocks, lenlog, rbmoff)
        ld == xfsum_load(xfile, offs, ldfail)
    IN
    IF ld.error # NoError
    THEN [error |-> ld.error, xfile |-> xfile, xcorrupt |-> FALSE, stored |-> 0]
    ELSE IF sterr # NoError
    THEN [error |-> sterr, xfile |-> xfile, xcorrupt |-> FALSE, stored |-> 0]
    ELSE [error |-> NoError,
          xfile |-> xfsum_store(xfile, offs, xchk_rtsum_inc(mp.rtgroups, ld.words[1])),
          xcorrupt |-> FALSE, stored |-> 1]

\* a callback that validates the extent before it looks at the signal
xchk_rtsum_record_free_VerifyFirst(rec, term, ldfail, sterr) ==
    LET rbmoff == xfs_rtx_to_rbmblock(rec.ar_startext)
        lenlog == xfs_highbit64(rec.ar_extcount)
        offs == xfs_rtsumoffs(rts.rbmblocks, lenlog, rbmoff)
        rtbno == xfs_rtx_to_rtb(rec.ar_startext)
        rtlen == xfs_rtxlen_to_extlen(rec.ar_extcount)
        ld == xfsum_load(xfile, offs, ldfail)
    IN
    IF ~xfs_verify_rtbext(mp.sb_rblocks, rtbno, rtlen)
    THEN [error |-> EFSCORRUPTED, xfile |-> xfile, xcorrupt |-> TRUE, stored |-> 0]
    ELSE IF term
    THEN [error |-> EINTR, xfile |-> xfile, xcorrupt |-> FALSE, stored |-> 0]
    ELSE IF ld.error # NoError
    THEN [error |-> ld.error, xfile |-> xfile, xcorrupt |-> FALSE, stored |-> 0]
    ELSE IF sterr # NoError
    THEN [error |-> sterr, xfile |-> xfile, xcorrupt |-> FALSE, stored |-> 0]
    ELSE [error |-> NoError,
          xfile |-> xfsum_store(xfile, offs, xchk_rtsum_inc(mp.rtgroups, ld.words[1])),
          xcorrupt |-> FALSE, stored |-> 1]

xchk_rtsum_record_free(rec, term, ldfail, sterr) ==
    IF term THEN [error |-> EINTR, xfile |-> xfile, xcorrupt |-> FALSE, stored |-> 0]
    ELSE
    LET rbmoff == xfs_rtx_to_rbmblock(rec.ar_startext)
        lenlog == xfs_highbit64(rec.ar_extcount)
        offs == xfs_rtsumoffs(rts.rbmblocks, lenlog, rbmoff)
        rtbno == xfs_rtx_to_rtb(rec.ar_startext)
        rtlen == xfs_rtxlen_to_extlen(rec.ar_extcount)
        ld == xfsum_load(xfile, offs, ldfail)
    IN
    IF ~xfs_verify_rtbext(mp.sb_rblocks, rtbno, rtlen)
    THEN [error |-> EFSCORRUPTED, xfile |-> xfile, xcorrupt |-> TRUE, stored |-> 0]
    ELSE IF ld.error # NoError
    THEN [error |-> ld.error, xfile |-> xfile, xcorrupt |-> FALSE, stored |-> 0]
    ELSE IF sterr # NoError
    THEN [error |-> sterr, xfile |-> xfile, xcorrupt |-> FALSE, stored |-> 0]
    ELSE [error |-> NoError,
          xfile |-> xfsum_store(xfile, offs, xchk_rtsum_inc(mp.rtgroups, ld.words[1])),
          xcorrupt |-> FALSE, stored |-> 1]

(***************************************************************************)
(* xchk_rtsummary, geometry checks.                                        *)
(***************************************************************************)
\* an alignment check whose mask is the block size instead of the block mask
SummaryUnaligned_SizeAsMask == BitAnd(rsumip.i_disk_size, m_blocksize) # 0

\* the summary file length is not aligned to an fsblock
SummaryUnaligned == BitAnd(rsumip.i_disk_size, m_blockmask) # 0
\* a size check that accepts only the computed size
SummaryTooSmall_ExactOnly == rsumip.i_disk_size # XFS_FSB_TO_B(rts.rsumblocks)

\* the summary file is too small for the rt volume
SummaryTooSmall == rsumip.i_disk_size < XFS_FSB_TO_B(rts.rsumblocks)

\* geometry checks that blame the summary inode for a wrong extent count
GeometryChecks_SummaryBlamed ==
    IF mp.sb_rextents # rts.rextents
    THEN [ino |-> "rsumip", evaluated |-> <<"rextents">>]
    ELSE IF mp.m_rsumlevels # rts.rsumlevels
    THEN [ino |-> "rsumip", evaluated |-> <<"rextents", "rsumlevels">>]
    ELSE IF mp.m_rsumblocks # rts.rsumblocks
    THEN [ino |-> "rsumip", evaluated |-> <<"rextents", "rsumlevels", "rsumblocks">>]
    ELSE IF SummaryUnaligned
    THEN [ino |-> "rsumip",
          evaluated |-> <<"rextents", "rsumlevels", "rsumblocks", "aligned">>]
    ELSE IF SummaryTooSmall
    THEN [ino |-> "rsumip",
          evaluated |-> <<"rextents", "rsumlevels", "rsumblocks", "aligned", "minsize">>]
    ELSE [ino |-> "none",
          evaluated |-> <<"rextents", "rsumlevels", "rsumblocks", "aligned", "minsize">>]

\* The checks in the order the function makes them.  ino: the inode marked
\* corrupt by the first failing check ("none": all passed); evaluated: the
\* checks that were evaluated.
GeometryChecks ==
    IF mp.sb_rextents # rts.rextents
    THEN [ino |-> "rbmip", evaluated |-> <<"rextents">>]
    ELSE IF mp.m_rsumlevels # rts.rsumlevels
    THEN [ino |-> "rsumip", evaluated |-> <<"rextents", "rsumlevels">>]
    ELSE IF mp.m_rsumblocks # rts.rsumblocks
    THEN [ino |-> "rsumip", evaluated |-> <<"rextents", "rsumlevels", "rsumblocks">>]
    ELSE IF SummaryUnaligned
    THEN [ino |-> "rsumip",
          evaluated |-> <<"rextents", "rsumlevels", "rsumblocks", "aligned">>]
    ELSE IF SummaryTooSmall
    THEN [ino |-> "rsumip",
          evaluated |-> <<"rextents", "rsumlevels", "rsumblocks", "aligned", "minsize">>]
    ELSE [ino |-> "none",
          evaluated |-> <<"rextents", "rsumlevels", "rsumblocks", "aligned", "minsize">>]

XchkGeometry ==
    /\ pc = "geometry"
    /\ LET r == GeometryChecks IN
       /\ hist' = [hist EXCEPT !.checks = r.evaluated]
       /\ IF r.ino # "none"
          THEN /\ sm_flags' = sm_flags \cup {XFS_SCRUB_OFLAG_CORRUPT}
               /\ marks' = marks \cup {InoMark(r.ino)}
               /\ pc' = "done"
               /\ ret' = NoError
          ELSE /\ pc' = "forks"
               /\ UNCHANGED <<sm_flags, marks, ret>>
    /\ stages' = Append(stages, "GEOMETRY_CHECK")
    /\ UNCHANGED <<ondisk, rts, xfile, cur, off, sumoff, bp>>

(***************************************************************************)
(* xchk_rtsummary, the fork scrubber.  xchk_metadata_inode_forks either    *)
(* finds the forks clean, marks the inode corrupt and returns 0, or fails. *)
(***************************************************************************)
ForkOutcomes ==
    {[error |-> NoError, corrupt |-> FALSE],
     [error |-> NoError, corrupt |-> TRUE],
     [error |-> EIO, corrupt |-> FALSE]}

\* a fork check whose corruption verdict is ignored
ForksReturn_IgnoreCorrupt(error, flags) == error # NoError

\* if (error || (sc->sm->sm_flags & XFS_SCRUB_OFLAG_CORRUPT)) return error;
ForksReturn(error, flags) == error # NoError \/ XFS_SCRUB_OFLAG_CORRUPT \in flags

XchkForks ==
    /\ pc = "forks"
    /\ \E o \in ForkOutcomes :
        LET flags == IF o.corrupt THEN sm_flags \cup {XFS_SCRUB_OFLAG_CORRUPT}
                     ELSE sm_flags
        IN
        /\ sm_flags' = flags
        /\ marks' = IF o.corrupt THEN marks \cup {InoMark("rsumip")} ELSE marks
        /\ IF ForksReturn(o.error, flags)
           THEN pc' = "done" /\ ret' = o.error
           ELSE pc' = "compute" /\ ret' = ret
        /\ hist' = IF o.error # NoError THEN [hist EXCEPT !.fault = o.error] ELSE hist
    /\ stages' = Append(stages, "FORK_STRUCTURE_CHECK")
    /\ UNCHANGED <<ondisk, rts, xfile, cur, off, sumoff, bp>>

(***************************************************************************)
(* xchk_rtsummary after xchk_rtsum_compute returned error, with the flags  *)
(* and marks as the scan left them.                                        *)
(***************************************************************************)
\* any error is returned before -EFSCORRUPTED is looked at
ComputeReturns_ErrorFirst(error, flags, mk) ==
    IF error # NoError
    THEN /\ sm_flags' = flags
         /\ marks' = mk
         /\ pc' = "done"
         /\ ret' = error
    ELSE /\ sm_flags' = flags
         /\ marks' = mk
         /\ pc' = "compare"
         /\ ret' = ret

\* the bitmap is marked corrupt but -EFSCORRUPTED is still returned
ComputeReturns_NoReturnZero(error, flags, mk) ==
    IF error = EFSCORRUPTED
    THEN /\ sm_flags' = flags \cup {XFS_SCRUB_OFLAG_CORRUPT}
         /\ marks' = mk \cup {InoMark("rbmip")}
         /\ pc' = "done"
         /\ ret' = error
    ELSE IF error # NoError
    THEN /\ sm_flags' = flags
         /\ marks' = mk
         /\ pc' = "done"
         /\ ret' = error
    ELSE /\ sm_flags' = flags
         /\ marks' = mk
         /\ pc' = "compare"
         /\ ret' = ret

ComputeReturns(error, flags, mk) ==
    IF error = EFSCORRUPTED
    THEN /\ sm_flags' = flags \cup {XFS_SCRUB_OFLAG_CORRUPT}
         /\ marks' = mk \cup {InoMark("rbmip")}
         /\ pc' = "done"
         /\ ret' = NoError
    ELSE IF error # NoError
    THEN /\ sm_flags' = flags
         /\ marks' = mk
         /\ pc' = "done"
         /\ ret' = error
    ELSE /\ sm_flags' = flags
         /\ marks' = mk
         /\ pc' = "compare"
         /\ ret' = ret

(***************************************************************************)
(* xchk_rtsum_compute.                                                     *)
(***************************************************************************)
\* a size check that only rejects a bitmap file that is too small
BitmapSizeWrong_SmallerOnly ==
    XFS_FSB_TO_B(xfs_rtbitmap_blockcount(mp.sb_rextents)) > rbmip.i_disk_size

\* the bitmap size doesn't match the computed size
BitmapSizeWrong ==
    XFS_FSB_TO_B(xfs_rtbitmap_blockcount(mp.sb_rextents)) # rbmip.i_disk_size

\* a pre-check that assigns the computed size to the inode in its condition
XchkRtsumCompute_AssignInCondition ==
    /\ pc = "compute"
    /\ rbmip' = [rbmip EXCEPT !.i_disk_size =
                    XFS_FSB_TO_B(xfs_rtbitmap_blockcount(mp.sb_rextents))]
    /\ IF XFS_FSB_TO_B(xfs_rtbitmap_blockcount(mp.sb_rextents)) # 0
       THEN ComputeReturns(EFSCORRUPTED, sm_flags, marks)
       ELSE pc' = "scan" /\ UNCHANGED <<sm_flags, marks, ret>>
    /\ stages' = Append(stages, "RECOMPUTE")
    /\ UNCHANGED <<mp, rsumip, rts, xfile, cur, off, sumoff, bp, hist>>

XchkRtsumCompute ==
    /\ pc = "compute"
    /\ IF BitmapSizeWrong
       THEN ComputeReturns(EFSCORRUPTED, sm_flags, marks)
       ELSE pc' = "scan" /\ UNCHANGED <<sm_flags, marks, ret>>
    /\ stages' = Append(stages, "RECOMPUTE")
    /\ UNCHANGED <<ondisk, rts, xfile, cur, off, sumoff, bp, hist>>

\* errors of xfs_rtalloc_query_all itself (reading the bitmap)
IterErrors == {EIO, EFSCORRUPTED}

\* the iterator fails before handing out the next record
QueryAllFails ==
    /\ pc = "scan"
    /\ \E e \in IterErrors :
        /\ ComputeReturns(e, sm_flags, marks)
        /\ hist' = [hist EXCEPT !.fault = e]
    /\ UNCHANGED <<ondisk, rts, xfile, cur, off, sumoff, bp, stages>>

\* the iterator hands the next record to xchk_rtsum_record_free
RecordFree ==
    /\ pc = "scan"
    /\ cur <= Len(Records)
    /\ \E term \in BOOLEAN, ldfail \in BOOLEAN, sterr \in {NoError, ENOMEM} :
        LET r == xchk_rtsum_record_free(Records[cur], term, ldfail, sterr) IN
        /\ xfile' = r.xfile
        /\ hist' = [hist EXCEPT !.visits = @ + 1, !.stores = @ + r.stored,
                                !.fault = IF term THEN EINTR
                                          ELSE IF r.error # NoError /\ ~r.xcorrupt
                                          THEN r.error ELSE @]
        /\ IF r.error = NoError
           THEN /\ cur' = cur + 1
                /\ UNCHANGED <<sm_flags, marks, pc, ret>>
           ELSE /\ cur' = cur
                /\ ComputeReturns(r.error,
                      IF r.xcorrupt THEN sm_flags \cup {XFS_SCRUB_OFLAG_XCORRUPT}
                      ELSE sm_flags,
                      IF r.xcorrupt THEN marks \cup {InoXrefMark("rbmip")} ELSE marks)
    /\ UNCHANGED <<ondisk, rts, off, sumoff, bp, stages>>

\* the iterator has handed out every record
QueryAllDone ==
    /\ pc = "scan"
    /\ cur > Len(Records)
    /\ ComputeReturns(NoError, sm_flags, marks)
    /\ UNCHANGED <<ondisk, rts, xfile, cur, off, sumoff, bp, hist, stages>>

(***************************************************************************)
(* xchk_rtsum_compare.                                                     *)
(***************************************************************************)
endoff == XFS_B_TO_FSB(rsumip.i_disk_size)

\* xfs_iext_lookup_extent(ip, &ip->i_df, bno): is there an extent that ends
\* after bno
xfs_iext_lookup_extent(bno) ==
    \E b \in DOMAIN rsumip.extents : b >= bno /\ rsumip.extents[b] # "hole"

RECURSIVE MapRun(_, _, _)
\* length of the run of blocks in the state of block o, from o, at most len
MapRun(st, o, len) ==
    IF len = 0 \/ o \notin DOMAIN rsumip.extents \/ rsumip.extents[o] # st THEN 0
    ELSE 1 + MapRun(st, o + 1, len - 1)

\* xfs_bmapi_read(ip, o, len, &map, &nmap, XFS_DATA_FORK) with nmap = 1: the
\* first mapping of the range, holes included
xfs_bmapi_read(o, len) ==
    [nmap |-> 1,
     br_state |-> rsumip.extents[o],
     br_blockcount |-> MapRun(rsumip.extents[o], o, len)]

xfs_bmap_is_written_extent(map) == map.br_state = "written"

\* a mapping check that only counts the mappings
MappingBad_AnyMapping(map) == map.nmap # 1

\* the mapping does not let the comparison go on
MappingBad(map) == map.nmap # 1 \/ ~xfs_bmap_is_written_extent(map)

\* a comparison that stops after the first word of the block
BlocksDiffer_FirstWordOnly(a, b) ==
    \E j \in 1 .. WordBytes : a[1][j] # b[1][j]

\* memcmp(ondisk_info, rts->words, mp->m_blockwsize << XFS_WORDLOG) != 0
BlocksDiffer(a, b) ==
    \E i \in 1 .. m_blockwsize : \E j \in 1 .. WordBytes : a[i][j] # b[i][j]

\* xchk_rtsum_compare returns error (to xchk_rtsummary, which returns it)
CompareReturns(error) == pc' = "done" /\ ret' = error

\* start of the function: mappings may not cross or lie beyond EOF
CompareLookup ==
    /\ pc = "compare"
    /\ hist' = [hist EXCEPT !.lookups = @ + 1]
    /\ IF xfs_iext_lookup_extent(endoff)
       THEN /\ sm_flags' = sm_flags \cup {XFS_SCRUB_OFLAG_CORRUPT}
            /\ marks' = marks \cup {FblockMark(endoff)}
            /\ CompareReturns(NoError)
       ELSE /\ UNCHANGED <<sm_flags, marks>>
            /\ IF 0 < endoff
               THEN pc' = "cmp_map" /\ ret' = ret
               ELSE CompareReturns(NoError)
    /\ off' = 0
    /\ sumoff' = 0
    /\ stages' = Append(stages, "COMPARE")
    /\ UNCHANGED <<ondisk, rts, xfile, cur, bp>>

\* errors of xfs_bmapi_read and of xfs_rtsummary_read_buf
BmapErrors == {EIO, EFSCORRUPTED}
ReadErrors == {EIO, EFSCORRUPTED}

\* a mapping loop without the checkpoint
MappingCheckpoint_Missing(term) == FALSE

\* if (xchk_should_terminate(sc, &error)) return error;
\*   term: a fatal signal is pending when the loop polls
MappingCheckpoint(term) == term

\* one iteration of the while loop: make sure we have a written extent
CompareMapping ==
    /\ pc = "cmp_map"
    /\ off < endoff
    /\ \E term \in BOOLEAN, bmerr \in {NoError} \cup BmapErrors :
        IF MappingCheckpoint(term)
        THEN /\ CompareReturns(EINTR)
             /\ hist' = [hist EXCEPT !.fault = EINTR]
             /\ UNCHANGED <<sm_flags, marks, off>>
        ELSE IF XFS_SCRUB_OFLAG_CORRUPT \in sm_flags
        THEN /\ CompareReturns(NoError)
             /\ hist' = [hist EXCEPT !.fault = IF term THEN EINTR ELSE @]
             /\ UNCHANGED <<sm_flags, marks, off>>
        ELSE
        LET pe == xchk_fblock_process_error(bmerr)
            map == xfs_bmapi_read(off, endoff - off)
        IN
        /\ hist' = [hist EXCEPT !.bmaps = @ + 1,
                                !.fault = IF term THEN EINTR
                                          ELSE IF bmerr # NoError THEN bmerr ELSE @]
        /\ IF ~pe.ok
           THEN /\ sm_flags' = IF pe.corrupt
                               THEN sm_flags \cup {XFS_SCRUB_OFLAG_CORRUPT}
                               ELSE sm_flags
                /\ marks' = IF pe.corrupt THEN marks \cup {FblockMark(off)} ELSE marks
                /\ CompareReturns(pe.error)
                /\ off' = off
           ELSE IF MappingBad(map)
           THEN /\ sm_flags' = sm_flags \cup {XFS_SCRUB_OFLAG_CORRUPT}
                /\ marks' = marks \cup {FblockMark(off)}
                /\ CompareReturns(NoError)
                /\ off' = off
           ELSE /\ UNCHANGED <<sm_flags, marks, ret>>
                /\ IF off + map.br_blockcount < endoff
                   THEN pc' = pc /\ off' = off + map.br_blockcount
                   ELSE pc' = "cmp_blocks" /\ off' = 0
    /\ UNCHANGED <<ondisk, rts, xfile, cur, sumoff, bp, stages>>

\* an iteration that reports a differing block and goes on to the next one
CompareOneBlock_ContinueOnMismatch(ondisk_info, ld) ==
    IF ld.error # NoError
    THEN [next |-> "return", error |-> ld.error, corrupt |-> FALSE,
          words |-> rts.words, cmps |-> 0, relse |-> 1]
    ELSE [next |-> "continue", error |-> NoError,
          corrupt |-> BlocksDiffer(ondisk_info, ld.words),
          words |-> ld.words, cmps |-> 1, relse |-> 1]

\* an iteration that returns the xfile error without releasing the buffer
CompareOneBlock_LeakOnLoadError(ondisk_info, ld) ==
    IF ld.error # NoError
    THEN [next |-> "return", error |-> ld.error, corrupt |-> FALSE,
          words |-> rts.words, cmps |-> 0, relse |-> 0]
    ELSE IF BlocksDiffer(ondisk_info, ld.words)
    THEN [next |-> "return", error |-> NoError, corrupt |-> TRUE,
          words |-> ld.words, cmps |-> 1, relse |-> 1]
    ELSE [next |-> "continue", error |-> NoError, corrupt |-> FALSE,
          words |-> ld.words, cmps |-> 1, relse |-> 1]

\* what one iteration of the for loop does after a successful block read:
\* copy out the computed block, compare, release the buffer
\*   next: "return" or "continue"
CompareOneBlock(ondisk_info, ld) ==
    IF ld.error # NoError
    THEN [next |-> "return", error |-> ld.error, corrupt |-> FALSE,
          words |-> rts.words, cmps |-> 0, relse |-> 1]
    ELSE IF BlocksDiffer(ondisk_info, ld.words)
    THEN [next |-> "return", error |-> NoError, corrupt |-> TRUE,
          words |-> ld.words, cmps |-> 1, relse |-> 1]
    ELSE [next |-> "continue", error |-> NoError, corrupt |-> FALSE,
          words |-> ld.words, cmps |-> 1, relse |-> 1]

\* one iteration of the for loop: read and compare one block
\*   sig: a fatal signal is pending when the iteration starts (the loop
\*   does not poll it)
CompareBlock ==
    /\ pc = "cmp_blocks"
    /\ off < endoff
    /\ \E rderr \in {NoError} \cup ReadErrors, ldfail \in BOOLEAN, sig \in BOOLEAN :
        LET pe == xchk_fblock_process_error(rderr) IN
        IF ~pe.ok
        THEN /\ hist' = [hist EXCEPT !.reads = @ + 1, !.fault = rderr,
                                     !.sigblock = @ \/ sig]
             /\ sm_flags' = IF pe.corrupt
                            THEN sm_flags \cup {XFS_SCRUB_OFLAG_CORRUPT}
                            ELSE sm_flags
             /\ marks' = IF pe.corrupt THEN marks \cup {FblockMark(off)} ELSE marks
             /\ CompareReturns(pe.error)
             /\ UNCHANGED <<rts, off, sumoff, bp>>
        ELSE
        LET ld == xfsum_copyout(xfile, sumoff, m_blockwsize, ldfail)
            r == CompareOneBlock(rsumip.blocks[off], ld)
        IN
        /\ hist' = [hist EXCEPT !.reads = @ + 1, !.got = @ + 1,
                                !.cmps = @ + r.cmps,
                                !.relse = @ + r.relse,
                                !.fault = IF ld.error # NoError THEN ld.error ELSE @,
                                !.sigblock = @ \/ sig]
        /\ rts' = [rts EXCEPT !.words = r.words]
        /\ bp' = IF r.relse = 1 THEN -1 ELSE off
        /\ sm_flags' = IF r.corrupt THEN sm_flags \cup {XFS_SCRUB_OFLAG_CORRUPT}
                       ELSE sm_flags
        /\ marks' = IF r.corrupt THEN marks \cup {FblockMark(off)} ELSE marks
        /\ IF r.next = "return"
           THEN /\ CompareReturns(r.error)
                /\ UNCHANGED <<off, sumoff>>
           ELSE /\ off' = off + 1
                /\ sumoff' = sumoff + m_blockwsize
                /\ IF off + 1 < endoff
                   THEN UNCHANGED <<pc, ret>>
                   ELSE CompareReturns(NoError)
    /\ UNCHANGED <<ondisk, xfile, cur, stages>>

Next ==
    \/ XchkGeometry
    \/ XchkForks
    \/ XchkRtsumCompute
    \/ QueryAllFails
    \/ RecordFree
    \/ QueryAllDone
    \/ CompareLookup
    \/ CompareMapping
    \/ CompareBlock

Spec == Init /\ [][Next]_vars

(***************************************************************************)
(* The filesystem checked twice.  When xchk_rtsum_compute has returned 0   *)
(* the xfile is remembered and the check is set up again on the unchanged  *)
(* filesystem; the second check runs up to the return of                   *)
(* xchk_rtsum_compute.                                                     *)
(***************************************************************************)
\* a setup that keeps the xfile of the check before
XchkSetupAgain_KeepXfile ==
    /\ pc = "compare"
    /\ ~hist.first.taken
    /\ hist' = [ZeroHist EXCEPT !.first = [taken |-> TRUE, xfile |-> xfile]]
    /\ rts' = [rextents |-> SetupGeometry(mp.sb_rblocks).rextents,
               rbmblocks |-> SetupGeometry(mp.sb_rblocks).rbmblocks,
               rsumblocks |-> SetupGeometry(mp.sb_rblocks).rsumblocks,
               rsumlevels |-> SetupGeometry(mp.sb_rblocks).rsumlevels,
               words |-> [i \in 1 .. m_blockwsize |-> ZeroWord]]
    /\ xfile' = xfile
    /\ sm_flags' = {} /\ marks' = {}
    /\ pc' = "geometry" /\ ret' = "none"
    /\ cur' = 1 /\ off' = 0 /\ sumoff' = 0 /\ bp' = -1
    /\ stages' = <<>>
    /\ UNCHANGED ondisk

\* xchk_setup_rtsummary for the second check: rts is allocated zeroed, a new
\* xfile is created and the geometry is computed again
XchkSetupAgain ==
    /\ pc = "compare"
    /\ ~hist.first.taken
    /\ hist' = [ZeroHist EXCEPT !.first = [taken |-> TRUE, xfile |-> xfile]]
    /\ rts' = [rextents |-> SetupGeometry(mp.sb_rblocks).rextents,
               rbmblocks |-> SetupGeometry(mp.sb_rblocks).rbmblocks,
               rsumblocks |-> SetupGeometry(mp.sb_rblocks).rsumblocks,
               rsumlevels |-> SetupGeometry(mp.sb_rblocks).rsumlevels,
               words |-> [i \in 1 .. m_blockwsize |-> ZeroWord]]
    /\ xfile' = xfile_create(XFS_FSB_TO_B(mp.m_rsumblocks))
    /\ sm_flags' = {} /\ marks' = {}
    /\ pc' = "geometry" /\ ret' = "none"
    /\ cur' = 1 /\ off' = 0 /\ sumoff' = 0 /\ bp' = -1
    /\ stages' = <<>>
    /\ UNCHANGED ondisk

NextTwice ==
    \/ XchkGeometry
    \/ XchkForks
    \/ XchkRtsumCompute
    \/ QueryAllFails
    \/ RecordFree
    \/ QueryAllDone
    \/ XchkSetupAgain

SpecTwice == Init /\ [][NextTwice]_vars

(***************************************************************************)
(* xchk_rtsum_inc on words near a carry.  A volume of one rt extent, whose *)
(* single summary word already holds a count; the callback is called for   *)
(* further records with the coordinate of that word.                       *)
(***************************************************************************)
\* byte values around a carry
CarryBytes == {0, 1, 254, 255}

InitInc ==
    \E rtgroups \in BOOLEAN, start \in [1 .. WordBytes -> CarryBytes] :
        LET g == SetupGeometry(sb_rextsize) IN
        /\ mp = [sb_rblocks |-> sb_rextsize, sb_rextents |-> g.rextents,
                 m_rsumlevels |-> g.rsumlevels, m_rsumblocks |-> g.rsumblocks,
                 rtgroups |-> rtgroups]
        /\ rbmip = [i_disk_size |-> XFS_FSB_TO_B(g.rbmblocks), free |-> {0}]
        /\ rsumip = [i_disk_size |-> XFS_FSB_TO_B(g.rsumblocks),
                     blocks |-> [b \in 0 .. (g.rsumblocks - 1) |->
                                    [i \in 1 .. m_blockwsize |-> ZeroWord]],
                     extents |-> [b \in 0 .. g.rsumblocks |->
                                    IF b = g.rsumblocks THEN "hole" ELSE "written"]]
        /\ rts = [rextents |-> g.rextents, rbmblocks |-> g.rbmblocks,
                  rsumblocks |-> g.rsumblocks, rsumlevels |-> g.rsumlevels,
                  words |-> [i \in 1 .. m_blockwsize |-> ZeroWord]]
        /\ xfile = [xfile_create(XFS_FSB_TO_B(g.rsumblocks)) EXCEPT ![0] = start]
        /\ sm_flags = {}
        /\ marks = {}
        /\ pc = "scan"
        /\ ret = "none"
        /\ cur = 1
        /\ off = 0
        /\ sumoff = 0
        /\ bp = -1
        /\ hist = [ZeroHist EXCEPT !.start = start]
        /\ stages = <<"GEOMETRY_CHECK", "FORK_STRUCTURE_CHECK", "RECOMPUTE">>

\* xchk_rtsum_record_free for one more record of length 1 in bitmap block 0
IncWord ==
    /\ pc = "scan"
    /\ hist.visits < MaxIncs
    /\ LET r == xchk_rtsum_record_free([ar_startext |-> 0, ar_extcount |-> 1],
                                       FALSE, FALSE, NoError)
       IN
       /\ xfile' = r.xfile
       /\ hist' = [hist EXCEPT !.visits = @ + 1, !.stores = @ + r.stored,
                               !.fault = IF r.error # NoError THEN r.error ELSE @]
       /\ sm_flags' = IF r.xcorrupt THEN sm_flags \cup {XFS_SCRUB_OFLAG_XCORRUPT}
                      ELSE sm_flags
       /\ marks' = IF r.xcorrupt THEN marks \cup {InoXrefMark("rbmip")} ELSE marks
    /\ UNCHANGED <<ondisk, rts, pc, ret, cur, off, sumoff, bp, stages>>

NextInc == IncWord

SpecInc == InitInc /\ [][NextInc]_vars

(***************************************************************************)
(* Properties.                                                             *)
(***************************************************************************)
StageOrder == <<"GEOMETRY_CHECK", "FORK_STRUCTURE_CHECK", "RECOMPUTE", "COMPARE">>
IsPrefix(s, t) == Len(s) <= Len(t) /\ \A i \in 1 .. Len(s) : s[i] = t[i]

Corrupt == XFS_SCRUB_OFLAG_CORRUPT \in sm_flags
\* corruption verdict against the summary inode / the bitmap inode
SummaryVerdict ==
    Corrupt /\ \E m \in marks : m.ino = "rsumip" /\ m.kind \in {"ino", "fblock"}
BitmapVerdict == Corrupt /\ InoMark("rbmip") \in marks
VerdictOk == sm_flags = {} /\ marks = {} /\ ret = NoError

\* the run ended inside the stage named last in stages
EndedIn(stage) == pc = "done" /\ stages # <<>> /\ stages[Len(stages)] = stage

\* block b of the recomputed summary, as a block sized read of the xfile
\* returns it
ScratchBlock(b) ==
    [i \in 1 .. m_blockwsize |->
        IF (b * m_blockwsize + i - 1) \in DOMAIN xfile
        THEN xfile[b * m_blockwsize + i - 1] ELSE ZeroWord]

FileBlocks == 0 .. (XFS_B_TO_FSB(rsumip.i_disk_size) - 1)
\* blocks of the ondisk summary that differ from the recomputed summary
DiffBlocks == {b \in FileBlocks : rsumip.blocks[b] # ScratchBlock(b)}
AllWritten == \A b \in FileBlocks : rsumip.extents[b] = "written"
NoEofExtent ==
    \A b \in DOMAIN rsumip.extents : b \notin FileBlocks => rsumip.extents[b] = "hole"

\* C1 as stated: the run got through geometry, forks and scan and ended in
\* the comparison, every block of the file is a written mapping and nothing
\* failed or cancelled
C1_Pre ==
    /\ EndedIn("COMPARE")
    /\ hist.fault = "none"
    /\ AllWritten

\* C1 (original statement): under C1_Pre the summary corruption verdict is
\* set iff some ondisk summary block differs from the recomputed block, and
\* the verdict is Ok when every block is equal.
C1_Original ==
    C1_Pre => /\ SummaryVerdict <=> DiffBlocks # {}
              /\ DiffBlocks = {} => VerdictOk

\* C1 (amended): for a run in which geometry validation and the fork check
\* pass, the scan completes without fault, every block of the ondisk summary
\* in [0, end_of_file) is a written mapping, no mapping crosses or lies
\* beyond end of file and no I/O fault or cancellation occurs, the summary
\* corruption verdict is set iff at least one ondisk block differs from the
\* corresponding block of the recomputed summary; when every block is equal
\* the verdict is Ok.
C1_CompareVerdict ==
    (C1_Pre /\ NoEofExtent) =>
        /\ SummaryVerdict <=> DiffBlocks # {}
        /\ DiffBlocks = {} => VerdictOk

\* a run of C1 that found a differing block after comparing an equal one
C1_Witness ==
    /\ C1_Pre /\ NoEofExtent
    /\ DiffBlocks # {} /\ 0 \notin DiffBlocks
    /\ SummaryVerdict
    /\ hist.stores > 0

\* C2: every step starts in a state with no corruption verdict and no
\* return value (the run is terminal on the first of either); the stages
\* are entered in the order GEOMETRY_CHECK, FORK_STRUCTURE_CHECK, RECOMPUTE,
\* COMPARE; a call of the free extent callback happens only after the
\* geometry and fork stages, and an extent map query or ondisk block read
\* only after the recompute stage.
C2_Step ==
    /\ ~Corrupt /\ ret = "none"
    /\ IsPrefix(stages', StageOrder)
    /\ Len(stages) <= Len(stages') /\ Len(stages') <= Len(stages) + 1
    /\ hist'.visits > hist.visits =>
            /\ stages = SubSeq(StageOrder, 1, 3) /\ stages' = stages
            /\ Len(hist.checks) = 5
            /\ sm_flags = {} /\ hist.fault = "none"
    /\ (hist'.lookups > hist.lookups \/ hist'.bmaps > hist.bmaps
            \/ hist'.reads > hist.reads) =>
            /\ SubSeq(stages, 1, 3) = SubSeq(StageOrder, 1, 3)
            /\ stages' = StageOrder
            /\ Len(hist.checks) = 5
            /\ sm_flags = {} /\ hist.fault = "none"

C2_StageOrder == [][C2_Step]_vars

\* a run that went through all four stages and read summary blocks
C2_Witness == pc = "done" /\ stages = StageOrder /\ hist.reads > 1 /\ hist.visits > 1

\* C3: a corruption verdict or a return value exists only once the run has
\* ended; a run that ends with a corruption verdict returns 0; a run that
\* ends with an error returns the error that the failing collaborator
\* reported (or the cancellation) and no corruption flag is set.
C3_VerdictOrError ==
    /\ (Corrupt \/ ret # "none") => pc = "done"
    /\ pc = "done" => ret # "none"
    /\ Corrupt => ret = NoError
    /\ ret \notin {"none", NoError} => sm_flags = {} /\ marks = {} /\ ret = hist.fault

\* a run that failed with an error in the middle of the scan
C3_Witness ==
    /\ EndedIn("RECOMPUTE") /\ ret = ENOMEM /\ hist.stores > 0 /\ sm_flags = {}

\* lowest block of a non-empty set of blocks
Lowest(S) == CHOOSE k \in S : \A j \in S : k <= j

\* C4: once the comparison runs, with k the lowest block of the ondisk
\* summary that differs from the recomputed summary, no more than the blocks
\* 0..k are ever read or compared; and when the comparison ends without a
\* failed or cancelled call, corruption is reported against block k of the
\* summary inode and against no other block, after exactly k+1 block reads
\* and k+1 comparisons.
C4_FirstMismatchWins ==
    (Len(stages) = 4 /\ DiffBlocks # {}) =>
        LET k == Lowest(DiffBlocks) IN
        /\ hist.reads <= k + 1
        /\ hist.cmps <= k + 1
        /\ (pc = "done" /\ hist.fault = "none" /\ AllWritten /\ NoEofExtent) =>
              /\ Corrupt
              /\ marks = {FblockMark(k)}
              /\ ret = NoError
              /\ hist.reads = k + 1
              /\ hist.cmps = k + 1

\* a comparison that stopped at block 1 although a later block differs too
C4_Witness ==
    /\ pc = "done" /\ Len(stages) = 4 /\ hist.fault = "none"
    /\ Cardinality(DiffBlocks) >= 2 /\ Lowest(DiffBlocks) = 1
    /\ marks = {FblockMark(1)} /\ hist.reads = 2

\* the scan has handed every record to the callback and returned 0
ScanComplete == pc \in {"compare", "cmp_map", "cmp_blocks"} \/ Len(stages) = 4

FloorLog2(n) == CHOOSE k \in 0 .. n : 2 ^ k <= n /\ n < 2 ^ (k + 1)

\* records whose size order is order and which start in bitmap block blk
RecordsAt(order, blk) ==
    {i \in 1 .. Len(Records) :
        /\ FloorLog2(Records[i].ar_extcount) = order
        /\ Records[i].ar_startext \div m_rtx_per_rbmblock = blk}

\* C5: after a scan that completed, every summary word of the xfile holds
\* the number of free extent records whose (order, bitmap block) is the
\* coordinate of that word, order = floor(log2(unit_count)) and bitmap block
\* = the block holding start_unit; words no record maps to are zero.
C5_MonotonicCounting ==
    ScanComplete =>
        \A w \in DOMAIN xfile :
            SumValue(mp.rtgroups, xfile[w]) =
                Cardinality(RecordsAt(w \div rts.rbmblocks, w % rts.rbmblocks))

\* a completed scan that counted two extents in one word
C5_Witness ==
    /\ ScanComplete
    /\ Len(Records) = 2
    /\ \E w \in DOMAIN xfile : SumValue(mp.rtgroups, xfile[w]) = 2

GeomOrder == <<"rextents", "rsumlevels", "rsumblocks", "aligned", "minsize">>
GeomFails(c) ==
    CASE c = "rextents" -> mp.sb_rextents # rts.rextents
      [] c = "rsumlevels" -> mp.m_rsumlevels # rts.rsumlevels
      [] c = "rsumblocks" -> mp.m_rsumblocks # rts.rsumblocks
      [] c = "aligned" -> rsumip.i_disk_size % m_blocksize # 0
      [] c = "minsize" -> rsumip.i_disk_size < rts.rsumblocks * m_blocksize

\* C6: the geometry checks are evaluated in the order extent count, level
\* count, block count, length alignment, length minimum, up to and including
\* the first one that fails; that check sets exactly one verdict (against
\* the bitmap inode for the extent count, against the summary inode
\* otherwise), the run returns 0 and nothing is scanned or read.
C6_GeometryShortCircuit ==
    hist.checks # <<>> =>
        LET n == Len(hist.checks) IN
        /\ IsPrefix(hist.checks, GeomOrder)
        /\ \A i \in 1 .. (n - 1) : ~GeomFails(GeomOrder[i])
        /\ n < Len(GeomOrder) => GeomFails(GeomOrder[n])
        /\ GeomFails(GeomOrder[n]) =>
              /\ pc = "done" /\ ret = NoError
              /\ sm_flags = {XFS_SCRUB_OFLAG_CORRUPT}
              /\ marks = {InoMark(IF n = 1 THEN "rbmip" ELSE "rsumip")}
              /\ stages = <<"GEOMETRY_CHECK">>
              /\ hist.visits = 0 /\ hist.stores = 0 /\ hist.lookups = 0
              /\ hist.bmaps = 0 /\ hist.reads = 0 /\ hist.cmps = 0

\* a run stopped by the extent count although the level count is wrong too
C6_Witness ==
    /\ pc = "done" /\ hist.checks = <<"rextents">>
    /\ GeomFails("rextents") /\ GeomFails("rsumlevels")
    /\ BitmapVerdict /\ ~SummaryVerdict

\* the record reaches past the end of the realtime volume
OutOfRange(rec) ==
    (rec.ar_startext + rec.ar_extcount) * sb_rextsize > mp.sb_rblocks

RECURSIVE SumWords(_)
\* sum of the counts held by the xfile words below w
SumWords(w) ==
    IF w = 0 THEN 0 ELSE SumValue(mp.rtgroups, xfile[w - 1]) + SumWords(w - 1)
TotalCount == SumWords(Cardinality(DOMAIN xfile))

\* C7: no record is passed once an out of range record has been handed to
\* the callback; when the callback validates an out of range record (it was
\* not cancelled at its checkpoint) the run ends there with 0 returned and
\* the bitmap inode, not the summary inode, marked corrupt, the xfile holds
\* only the counts of the earlier records, and the comparison never runs.
C7_OutOfRangeAborts ==
    /\ \A i \in 1 .. (cur - 1) : i <= Len(Records) => ~OutOfRange(Records[i])
    /\ (/\ cur <= Len(Records) /\ OutOfRange(Records[cur])
        /\ hist.visits = cur /\ hist.fault # EINTR) =>
            /\ pc = "done" /\ ret = NoError
            /\ BitmapVerdict /\ ~SummaryVerdict
            /\ \A m \in marks : m.ino = "rbmip"
            /\ stages = SubSeq(StageOrder, 1, 3)
            /\ TotalCount = cur - 1
            /\ hist.lookups = 0 /\ hist.bmaps = 0 /\ hist.reads = 0 /\ hist.cmps = 0

\* a scan stopped by an out of range record after counting an earlier one
C7_Witness ==
    /\ pc = "done" /\ cur = 2 /\ hist.visits = 2 /\ hist.fault = "none"
    /\ OutOfRange(Records[2]) /\ BitmapVerdict /\ TotalCount = 1

\* the bitmap inode size is not the computed bitmap size
BitmapSizeMismatch ==
    rbmip.i_disk_size # howmany(rts.rextents, m_rtx_per_rbmblock) * m_blocksize

\* C8 (original statement): in a run that ends in the recompute stage every
\* failure of the iterator or of an xfile load or store is returned as an
\* error with no verdict, and a corruption verdict is produced only for an
\* out of range record.
C8_Original ==
    EndedIn("RECOMPUTE") =>
        /\ hist.fault # "none" => ret = hist.fault /\ ~Corrupt
        /\ Corrupt => InoXrefMark("rbmip") \in marks

\* C8 (amended): in a run that ends in the recompute stage every failure
\* other than -EFSCORRUPTED reported by the iterator or by an xfile load or
\* store is returned as that error with no verdict; a corruption verdict is
\* produced exactly when xchk_rtsum_compute returns -EFSCORRUPTED, that is
\* for an out of range record, for a bitmap size that fails the pre-check
\* or for an -EFSCORRUPTED failure of the iterator, and it is a verdict
\* against the bitmap inode with 0 returned.
C8_RecomputeFailures ==
    EndedIn("RECOMPUTE") =>
        /\ hist.fault \notin {"none", EFSCORRUPTED} =>
              ret = hist.fault /\ sm_flags = {} /\ marks = {}
        /\ Corrupt <=> \/ InoXrefMark("rbmip") \in marks
                       \/ BitmapSizeMismatch
                       \/ hist.fault = EFSCORRUPTED
        /\ Corrupt => BitmapVerdict /\ ~SummaryVerdict /\ ret = NoError

\* a scan that counted a record and then failed in the xfile
C8_Witness ==
    /\ EndedIn("RECOMPUTE") /\ hist.fault = ENOMEM /\ ret = ENOMEM
    /\ hist.visits > hist.stores /\ hist.stores > 0

\* some block of the file is not a written mapping, or a mapping crosses or
\* lies beyond end of file
CoverageBad == ~AllWritten \/ ~NoEofExtent

\* C9: when the mapping of the summary file is bad no ondisk summary block
\* is ever read or compared; and a comparison that ends then without a
\* failed or cancelled call has reported corruption against a block of the
\* summary inode and returned 0.
C9_CoverageFirst ==
    CoverageBad =>
        /\ hist.reads = 0 /\ hist.cmps = 0
        /\ (EndedIn("COMPARE") /\ hist.fault = "none") =>
              /\ Corrupt /\ ret = NoError
              /\ \E o \in 0 .. XFS_B_TO_FSB(rsumip.i_disk_size) :
                    marks = {FblockMark(o)}

\* a comparison stopped by a hole behind a block that differs
C9_Witness ==
    /\ EndedIn("COMPARE") /\ hist.fault = "none"
    /\ 0 \in DiffBlocks /\ rsumip.extents[0] = "written"
    /\ 1 \in FileBlocks /\ rsumip.extents[1] = "hole"
    /\ marks = {FblockMark(1)} /\ hist.reads = 0

\* C10: with extent count, level count and block count right, a summary
\* length that is not block aligned or is below the computed size ends the
\* run in the geometry stage with a verdict against the summary inode and 0
\* returned; an aligned length at or above the computed size passes the
\* geometry stage with no verdict and the run goes on to the fork check.
C10_SummaryLength ==
    (/\ hist.checks # <<>>
     /\ mp.sb_rextents = rts.rextents
     /\ mp.m_rsumlevels = rts.rsumlevels
     /\ mp.m_rsumblocks = rts.rsumblocks) =>
        IF \/ rsumip.i_disk_size % m_blocksize # 0
           \/ rsumip.i_disk_size < rts.rsumblocks * m_blocksize
        THEN /\ pc = "done" /\ ret = NoError
             /\ sm_flags = {XFS_SCRUB_OFLAG_CORRUPT}
             /\ marks = {InoMark("rsumip")}
             /\ stages = <<"GEOMETRY_CHECK">>
        ELSE /\ Len(stages) >= 2 \/ pc = "forks"
             /\ stages = <<"GEOMETRY_CHECK">> => sm_flags = {} /\ marks = {} /\ ret = "none"

\* a run over a summary file longer than computed that was found clean
C10_Witness ==
    /\ pc = "done" /\ VerdictOk
    /\ rsumip.i_disk_size > rts.rsumblocks * m_blocksize
    /\ rts.rsumblocks > 0
    /\ hist.reads = Cardinality(FileBlocks) /\ hist.visits > 0

\* every word of the xfile is zero
ScratchAllZero == \A w \in DOMAIN xfile : xfile[w] = ZeroWord
\* the comparator has not made a call
ComparatorIdle ==
    hist.lookups = 0 /\ hist.bmaps = 0 /\ hist.reads = 0 /\ hist.cmps = 0

\* C11: when the size of the bitmap file is not the computed number of
\* bitmap blocks in bytes, the free extent callback is never called, the
\* xfile stays all zero and the comparator never runs; and a run that
\* reaches xchk_rtsum_compute with such a bitmap ends there with the bitmap
\* inode, and nothing else, marked corrupt and 0 returned.
C11_BitmapSizePrecheck ==
    BitmapSizeMismatch =>
        /\ hist.visits = 0 /\ hist.stores = 0
        /\ ScratchAllZero
        /\ ComparatorIdle
        /\ Len(stages) >= 3 =>
              /\ pc = "done" /\ ret = NoError
              /\ stages = SubSeq(StageOrder, 1, 3)
              /\ sm_flags = {XFS_SCRUB_OFLAG_CORRUPT}
              /\ marks = {InoMark("rbmip")}

\* a run stopped by the pre-check although the bitmap has free extents
C11_Witness ==
    /\ EndedIn("RECOMPUTE") /\ BitmapSizeMismatch
    /\ Len(Records) > 0 /\ Cardinality(DOMAIN xfile) > 0
    /\ BitmapVerdict /\ ret = NoError /\ hist.visits = 0

\* C12: when the signal is seen at the checkpoint of a free extent record,
\* the scan stops at that record: the xfile holds the counts of the records
\* before it and nothing of it or of a later record, the comparator never
\* runs, the run returns the terminated error and no corruption flag or
\* mark is set, whether or not the pending record is out of range.
C12_ScanCancelled ==
    (EndedIn("RECOMPUTE") /\ hist.fault = EINTR) =>
        /\ ret = EINTR
        /\ sm_flags = {} /\ marks = {}
        /\ ComparatorIdle
        /\ hist.visits = cur /\ hist.stores = cur - 1
        /\ \A w \in DOMAIN xfile :
              SumValue(mp.rtgroups, xfile[w]) =
                Cardinality({i \in RecordsAt(w \div rts.rbmblocks, w % rts.rbmblocks) :
                                i < cur})

\* a scan cancelled at an out of range record after counting an earlier one
C12_Witness ==
    /\ EndedIn("RECOMPUTE") /\ hist.fault = EINTR /\ ret = EINTR
    /\ cur = 2 /\ OutOfRange(Records[2]) /\ TotalCount = 1

\* C13: when the persisted extent count, summary level count and summary
\* block count are the values that xchk_setup_rtsummary recomputes from the
\* size of the realtime volume, and the summary file length is block aligned
\* and at least the computed size, all five geometry checks are evaluated
\* and pass: the geometry stage sets no flag and no mark, returns nothing
\* and hands over to the fork check.
C13_GeometryRoundTrip ==
    LET g == SetupGeometry(mp.sb_rblocks) IN
    (/\ hist.checks # <<>>
     /\ mp.sb_rextents = g.rextents
     /\ mp.m_rsumlevels = g.rsumlevels
     /\ mp.m_rsumblocks = g.rsumblocks
     /\ rsumip.i_disk_size % m_blocksize = 0
     /\ rsumip.i_disk_size >= g.rsumblocks * m_blocksize) =>
        /\ hist.checks = GeomOrder
        /\ \A m \in marks : m # InoMark("rbmip") \/ Len(stages) >= 3
        /\ stages = <<"GEOMETRY_CHECK">> =>
              pc = "forks" /\ sm_flags = {} /\ marks = {} /\ ret = "none"

\* the largest volume with its recomputed geometry, past the geometry stage
C13_Witness ==
    /\ pc = "forks" /\ hist.checks = GeomOrder
    /\ mp.sb_rextents = MaxRExtents
    /\ mp.m_rsumlevels = xfs_rtsummary_levels(MaxRExtents)
    /\ mp.m_rsumblocks = xfs_rtsummary_blockcount(MaxRExtents)
    /\ rsumip.i_disk_size = XFS_FSB_TO_B(mp.m_rsumblocks)
    /\ sm_flags = {}

\* C14: no step of a run, whatever its outcome, changes the superblock and
\* mount geometry, the bitmap inode and its free extents, or the summary
\* inode, its mappings and its blocks, nor the geometry computed at setup;
\* the xfile is written only by a callback call that stores a word, the
\* block sized buffer rts->words only by an iteration of the comparison
\* that copied a block out of the xfile, and the only other effect on the
\* scrub context is the setting of corruption flags.
C14_Step ==
    /\ mp' = mp /\ rbmip' = rbmip /\ rsumip' = rsumip
    /\ [rts' EXCEPT !.words = rts.words] = rts
    /\ xfile' # xfile => hist'.stores = hist.stores + 1
    /\ rts'.words # rts.words => hist'.cmps = hist.cmps + 1
    /\ sm_flags \subseteq sm_flags'
    /\ sm_flags' \subseteq {XFS_SCRUB_OFLAG_CORRUPT, XFS_SCRUB_OFLAG_XCORRUPT}

C14_ReadOnly == [][C14_Step]_vars

\* a run that wrote the xfile, the comparison buffer and a corruption flag
C14_Witness ==
    /\ pc = "done" /\ hist.stores > 0 /\ hist.cmps > 1 /\ Corrupt
    /\ \E i \in 1 .. m_blockwsize : rts.words[i] # ZeroWord

PossibleRecords ==
    {r \in [ar_startext : 0 .. (IterUnits(rts.rextents) - 1),
            ar_extcount : 1 .. IterUnits(rts.rextents)] :
        r.ar_startext + r.ar_extcount <= IterUnits(rts.rextents)}
\* (order, block_index) of a record
Coordinate(rec) ==
    <<FloorLog2(rec.ar_extcount), rec.ar_startext \div m_rtx_per_rbmblock>>

\* C16: when a scan starts, for any two free extent records that the
\* bitmap of the volume can hold, the summary offsets computed for them are
\* equal iff their coordinates (order, block_index) are equal, order =
\* floor(log2(unit_count)) and block_index = the bitmap block of start_unit;
\* and the offset is order * bitmap_block_count + block_index.
C16_CoordinateBijection ==
    (pc = "scan" /\ hist.visits = 0) =>
        \A r1 \in PossibleRecords :
            /\ RecordOffs(rts.rbmblocks, r1) =
                  Coordinate(r1)[1] * rts.rbmblocks + Coordinate(r1)[2]
            /\ \A r2 \in PossibleRecords :
                  (Coordinate(r1) = Coordinate(r2))
                    <=> (RecordOffs(rts.rbmblocks, r1) = RecordOffs(rts.rbmblocks, r2))

\* a scan that was handed two records with the same coordinate and then a
\* record with another one
C16_Witness ==
    /\ hist.visits = 3 /\ Len(Records) = 3
    /\ Coordinate(Records[1]) = Coordinate(Records[2])
    /\ Coordinate(Records[2]) # Coordinate(Records[3])
    /\ Coordinate(Records[3])[2] > 0
    /\ \A i \in 1 .. 3 : Records[i] \in PossibleRecords

\* C17 (original statement): the signal is polled once per block of the
\* block by block comparison, so that an iteration that starts with the
\* signal pending stops the comparison with the terminated result and no
\* corruption verdict.
C17_Original ==
    hist.sigblock => pc = "done" /\ ret = EINTR /\ ~Corrupt

\* C17 (amended): the signal is polled once per free extent record during
\* the scan and once per mapping while the comparator verifies the mappings
\* of the summary file, before any block is compared: a signal pending at
\* one of these polls ends the run there with the terminated result, no
\* corruption flag or mark and no block read.  The block by block
\* comparison has no checkpoint: a signal raised while blocks are compared
\* does not stop it and the run never returns the terminated result then.
C17_Checkpoints ==
    /\ hist.fault = EINTR =>
          /\ pc = "done" /\ ret = EINTR
          /\ sm_flags = {} /\ marks = {}
          /\ hist.reads = 0 /\ hist.cmps = 0
          /\ Len(stages) \in {3, 4}
    /\ hist.sigblock => hist.reads > 0 /\ ret # EINTR /\ hist.fault # EINTR

\* a comparison of two blocks that went on to a clean end with a signal
\* pending
C17_Witness ==
    /\ hist.sigblock /\ pc = "done" /\ VerdictOk
    /\ hist.reads >= 2 /\ hist.cmps = hist.reads

\* the 32-bit count of a raw word as its 16-bit halves <<high, low>>
Halves(rtgroups, raw) ==
    IF rtgroups \/ ~CpuLittleEndian
    THEN <<raw[1] * 256 + raw[2], raw[3] * 256 + raw[4]>>
    ELSE <<raw[4] * 256 + raw[3], raw[2] * 256 + raw[1]>>
\* v + n modulo 2^32, on halves
AddMod32(v, n) ==
    <<(v[1] + (v[2] + n) \div 65536) % 65536, (v[2] + n) % 65536>>

\* C18: after n increments a summary word holds its earlier count plus n
\* modulo 2^32, in the Legacy (native-endian) and in the Grouped
\* (big-endian) encoding alike, so that a word holding the maximum wraps to
\* 0; no call returns an error or sets a corruption flag or mark.
C18_Wraps ==
    /\ Halves(mp.rtgroups, xfile[0]) =
          AddMod32(Halves(mp.rtgroups, hist.start), hist.visits)
    /\ \A w \in DOMAIN xfile : w # 0 => xfile[w] = ZeroWord
    /\ hist.stores = hist.visits
    /\ hist.fault = "none" /\ sm_flags = {} /\ marks = {}

\* a Legacy word that held the maximum, after two increments
C18_Witness ==
    /\ ~mp.rtgroups /\ hist.visits = 2
    /\ hist.start = <<255, 255, 255, 255>>
    /\ xfile[0] = <<1, 0, 0, 0>>

\* words of the xfile as xchk_setup_rtsummary created it
ScratchWords == 0 .. (mp.m_rsumblocks * m_blockwsize - 1)

\* C19: every access to the xfile stays inside the file that setup created
\* (summary_block_count blocks): the words that the scan loads and stores
\* (a store outside would have grown the file), and the block sized ranges
\* that the comparator copies out, one per block read, the last of them
\* block hist.cmps - 1.
C19_ScratchBounds ==
    /\ DOMAIN xfile \subseteq ScratchWords
    /\ \A b \in 0 .. (hist.cmps - 1) :
          \A i \in 0 .. (m_blockwsize - 1) : (b * m_blockwsize + i) \in ScratchWords

\* C20: between the iterations of the block comparison loop and when the
\* comparator has returned, no ondisk summary buffer is held, and the
\* buffers released are as many as the block reads that returned one: each
\* block read is released once, in the iteration that read it, whether the
\* blocks matched, differed or the xfile could not be read; a read that
\* failed leaves nothing to release.
C20_BalancedBuffers ==
    /\ bp = -1
    /\ hist.relse = hist.got
    /\ hist.got <= hist.reads /\ hist.reads <= hist.got + 1
    /\ hist.reads > hist.got => pc = "done" /\ hist.fault \in ReadErrors

\* a comparison that ended in a failed xfile read on its second block
C20_Witness ==
    /\ pc = "done" /\ ret = ENOMEM /\ hist.fault = ENOMEM
    /\ hist.got = 2 /\ hist.cmps = 1 /\ hist.relse = 2 /\ bp = -1

====
